---- MODULE Spec2Model ----
(***************************************************************************)
(* The macros get! and must_let! of src/lib.rs, modelled as a compile step *)
(* (macro_rules arm selection and transcription, then the pattern and type *)
(* rules of the host language) followed by a run step (evaluation of the   *)
(* expanded code on a value-expression that may have side effects), and    *)
(* the token-segmentation helper of the procedural variant.                *)
(***************************************************************************)
EXTENDS Integers, Sequences, FiniteSets, TLC

VARIABLES pc, macro, inv, prog, expr, evals, inspected, rendered, outcome,
          result, locals, message, groups

vars == <<pc, macro, inv, prog, expr, evals, inspected, rendered, outcome,
          result, locals, message, groups>>

(* ------------------------------ bounds --------------------------------- *)

\* i32 field values range over 0..MaxInt
MaxInt == 1
\* longest field list / binding list of a must_let! invocation
MaxEntries == 2
\* longest token stream handed to the segmentation helper (besides the
\* worked example of the specification, which is always included)
MaxTokens == 3

(* --------------------------- strings, helpers -------------------------- *)

RECURSIVE Join(_, _)
Join(strs, sep) ==
    IF strs = <<>> THEN ""
    ELSE IF Len(strs) = 1 THEN strs[1]
    ELSE strs[1] \o sep \o Join(Tail(strs), sep)

RECURSIVE Flatten(_)
Flatten(seqs) ==
    IF seqs = <<>> THEN <<>> ELSE Head(seqs) \o Flatten(Tail(seqs))

Range(s) == {s[i] : i \in DOMAIN s}

NoDuplicates(s) == \A i, j \in DOMAIN s : i # j => s[i] # s[j]

(* ---------------------- the enums at the call sites --------------------- *)

\* Enum { Foo { foo: i32 }, Bar { bar: bool }, Baz { a: i32, b: i32 } } and
\* Option<i32> as in the tests; T { Pair(i32, i32), Nil } is a call-site enum
\* with two positional fields.  The fields of a tuple variant are named
\* "0", "1", ... as in the host language.
Variants ==
    { [ty |-> "Enum", ctor |-> "Foo", style |-> "struct",
       fields |-> <<"foo">>, types |-> <<"i32">>],
      [ty |-> "Enum", ctor |-> "Bar", style |-> "struct",
       fields |-> <<"bar">>, types |-> <<"bool">>],
      [ty |-> "Enum", ctor |-> "Baz", style |-> "struct",
       fields |-> <<"a", "b">>, types |-> <<"i32", "i32">>],
      [ty |-> "Option", ctor |-> "Some", style |-> "tuple",
       fields |-> <<"0">>, types |-> <<"i32">>],
      [ty |-> "Option", ctor |-> "None", style |-> "unit",
       fields |-> <<>>, types |-> <<>>],
      [ty |-> "T", ctor |-> "Pair", style |-> "tuple",
       fields |-> <<"0", "1">>, types |-> <<"i32", "i32">>],
      [ty |-> "T", ctor |-> "Nil", style |-> "unit",
       fields |-> <<>>, types |-> <<>>] }

Types == {d.ty : d \in Variants}

\* the paths by which a call site names a variant
PathsOf(d) ==
    IF d.ty = "Option"
    THEN {<<d.ctor>>, <<"std", "option", "Option", d.ctor>>}
    ELSE {<<d.ty, d.ctor>>}

Paths == UNION {PathsOf(d) : d \in Variants}

Resolve(path) == CHOOSE d \in Variants : path \in PathsOf(d)

Decl(v) == CHOOSE d \in Variants : d.ty = v.ty /\ d.ctor = v.ctor

I32 == 0..MaxInt

\* a field value with its type; a bool is held as 0 (false) or 1 (true)

PrimsOf(t) ==
    IF t = "i32" THEN {[t |-> "i32", v |-> n] : n \in I32}
    ELSE {[t |-> "bool", v |-> n] : n \in {0, 1}}

AllPrims == PrimsOf("i32") \cup PrimsOf("bool")

\* the unit value () and "no value"
Unit == [t |-> "unit", v |-> 0]
NoPrim == [t |-> "none", v |-> 0]

ValuesOf(d) ==
    { [ty |-> d.ty, ctor |-> d.ctor, vals |-> vs] :
        vs \in { s \in [1..Len(d.types) -> AllPrims] :
                   \A i \in 1..Len(d.types) : s[i].t = d.types[i] } }

Values == UNION {ValuesOf(d) : d \in Variants}

NoValue == [ty |-> "", ctor |-> "", vals |-> <<>>]

FieldIndex(d, f) == CHOOSE i \in DOMAIN d.fields : d.fields[i] = f

FieldVal(v, f) == v.vals[FieldIndex(Decl(v), f)]

(* ------------------------- #[derive(Debug)] ---------------------------- *)

DebugPrim(p) ==
    IF p.t = "bool" THEN (IF p.v = 1 THEN "true" ELSE "false")
    ELSE IF p.t = "unit" THEN "()"
    ELSE ToString(p.v)

DebugValue(v) ==
    LET d == Decl(v)
        n == Len(d.fields)
    IN  IF d.style = "struct"
        THEN d.ctor \o " { "
             \o Join([i \in 1..n |-> d.fields[i] \o ": " \o DebugPrim(v.vals[i])], ", ")
             \o " }"
        ELSE IF d.style = "tuple"
        THEN d.ctor \o "("
             \o Join([i \in 1..n |-> DebugPrim(v.vals[i])], ", ") \o ")"
        ELSE d.ctor

(* ----------------------------- stringify! ------------------------------ *)

\* stringify! of a `path` fragment prints the parsed path: its segments
\* joined by "::" whatever whitespace the caller wrote between the tokens.
StringifyPath(path) == Join(path, "::")

\* stringify! of a raw token sequence `$($constructor)::+` prints the tokens
\* with the compiler's token printer, whose spacing is not specified: the
\* printers of different compiler releases put a space around "::" or not.
TokenPrinters == {"spaced", "tight"}

StringifyTokens(path, printer) ==
    Join(path, IF printer = "spaced" THEN " :: " ELSE "::")

(* ------------------------- value-expressions --------------------------- *)

\* What a value-expression of static type ty yields: its first evaluation
\* and every later one (equal for an expression without side effects).
ExprsOf(ty) ==
    { [first |-> a, later |-> b] :
        a \in {v \in Values : v.ty = ty}, b \in {v \in Values : v.ty = ty} }

NoExpr == [first |-> NoValue, later |-> NoValue]

Pure(e) == e.first = e.later

\* the value of the n-th evaluation (n counted from 1)
Evaluate(e, n) == IF n = 1 THEN e.first ELSE e.later

(* ------------------------- the expanded code --------------------------- *)

\* An expansion: the constructor text of the abort message, the variant the
\* pattern names, the match pattern (field selector and bound name per entry,
\* ".." for the rest pattern), the tuple of values the match arm yields and
\* the patterns of the outer let.
NoProg ==
    [name |-> "", ctorText |-> "", ty |-> "", ctor |-> "",
     pattern |-> <<>>, vals |-> <<>>, outer |-> <<>>]

Rest == [sel |-> "..", bind |-> ".."]

\* Faulty variant: the names are bound to the fields by position in the
\* pattern, not by field name.
MatchPatternPositional(pattern, v) ==
    LET named == SelectSeq(pattern, LAMBDA p : p.sel # "..")
    IN  [i \in 1..Len(named) |-> [name |-> named[i].bind, val |-> v.vals[i]]]

\* the names a match pattern binds, with the field values of v
MatchPattern(pattern, v) ==
    LET named == SelectSeq(pattern, LAMBDA p : p.sel # "..")
    IN  [i \in 1..Len(named) |->
            [name |-> named[i].bind, val |-> FieldVal(v, named[i].sel)]]

Lookup(env, name) == env[CHOOSE i \in DOMAIN env : env[i].name = name].val

\* the run-time tag check of `if let` / `match`
TagMatches(p, v) == v.ty = p.ty /\ v.ctor = p.ctor

GetPanicMessage(ctorText, got) ==
    "get!: expected enum constructor: " \o ctorText \o ", got " \o got

\* unwrap_enum_field! (tests/get.rs): the extractor under its other name
UnwrapEnumFieldPanicMessage(ctorText, got) ==
    "unwrap_enum_field!: expected enum constructor: " \o ctorText \o ", got " \o got

MustLetPanicMessage(ctorText, got) ==
    "must_let!: expected enum constructor: " \o ctorText \o ", got " \o got

PanicMessage(p, got) ==
    IF p.name = "get!" THEN GetPanicMessage(p.ctorText, got)
    ELSE IF p.name = "unwrap_enum_field!"
    THEN UnwrapEnumFieldPanicMessage(p.ctorText, got)
    ELSE MustLetPanicMessage(p.ctorText, got)

\* the else branch / the `_` arm: panic!(.., stringify!(..), $value)
\* evaluates $value again to format it
PanicArm(p, e, v) ==
    LET w == Evaluate(e, 2)
    IN  [outcome |-> "panic", evals |-> 2, inspected |-> v, rendered |-> w,
         result |-> NoPrim, locals |-> <<>>,
         message |-> PanicMessage(p, DebugValue(w))]

\* Faulty variant: the superseded extractor, which yields a zero default
\* instead of panicking.
GetRunDefault(p, e) ==
    LET v == Evaluate(e, 1)
    IN  IF TagMatches(p, v)
        THEN [outcome |-> "value", evals |-> 1, inspected |-> v,
              rendered |-> NoValue,
              result |-> Lookup(MatchPattern(p.pattern, v), p.vals[1]),
              locals |-> <<>>, message |-> ""]
        ELSE [outcome |-> "value", evals |-> 1, inspected |-> v,
              rendered |-> NoValue, result |-> [t |-> "i32", v |-> 0],
              locals |-> <<>>, message |-> ""]

\* if let $constructor { $field, .. } = $value { $field } else { panic!(..) }
GetRun(p, e) ==
    LET v == Evaluate(e, 1)
    IN  IF TagMatches(p, v)
        THEN [outcome |-> "value", evals |-> 1, inspected |-> v,
              rendered |-> NoValue,
              result |-> Lookup(MatchPattern(p.pattern, v), p.vals[1]),
              locals |-> <<>>, message |-> ""]
        ELSE PanicArm(p, e, v)

\* Faulty variant: the value-expression is evaluated for the tag check and
\* again for the bindings, as repeated extractor calls would.
MustLetRunPerField(p, e) ==
    LET v == Evaluate(e, 1)
    IN  IF TagMatches(p, v)
        THEN LET w == Evaluate(e, 2)
                 env == MatchPattern(p.pattern, IF TagMatches(p, w) THEN w ELSE v)
                 tuple == [i \in DOMAIN p.vals |->
                              IF p.vals[i] = "()" THEN Unit
                              ELSE Lookup(env, p.vals[i])]
                 lets == [i \in DOMAIN p.outer |->
                              [name |-> p.outer[i], val |-> tuple[i]]]
             IN  [outcome |-> "bound", evals |-> 1 + Len(p.vals), inspected |-> v,
                  rendered |-> NoValue, result |-> NoPrim,
                  locals |-> SelectSeq(lets, LAMBDA b : b.name # "_"),
                  message |-> ""]
        ELSE PanicArm(p, e, v)

\* let (outer) = match $value { pattern => (vals), _ => panic!(..) };
MustLetRun(p, e) ==
    LET v == Evaluate(e, 1)
    IN  IF TagMatches(p, v)
        THEN LET env == MatchPattern(p.pattern, v)
                 tuple == [i \in DOMAIN p.vals |->
                              IF p.vals[i] = "()" THEN Unit
                              ELSE Lookup(env, p.vals[i])]
                 lets == [i \in DOMAIN p.outer |->
                              [name |-> p.outer[i], val |-> tuple[i]]]
             IN  [outcome |-> "bound", evals |-> 1, inspected |-> v,
                  rendered |-> NoValue, result |-> NoPrim,
                  locals |-> SelectSeq(lets, LAMBDA b : b.name # "_"),
                  message |-> ""]
        ELSE PanicArm(p, e, v)

(* -------------------------------- get! --------------------------------- *)

FieldIdents == {"foo", "bar", "a", "b"}

\* get!($value:expr, $constructor:path, $field:ident); valueTy is the static
\* type of the value-expression
GetInvocations ==
    [valueTy : Types, constructor : Paths, field : FieldIdents]

\* the pattern `$constructor { $field, .. }` must name a field of the
\* variant and have the type of the value
GetCompiles(i) ==
    LET d == Resolve(i.constructor)
    IN  d.ty = i.valueTy /\ i.field \in Range(d.fields)

\* Faulty variant: the pattern takes the first field of the variant, not
\* $field.
GetExpandFirstField(name, i) ==
    LET d == Resolve(i.constructor)
    IN  [name |-> name, ctorText |-> StringifyPath(i.constructor),
         ty |-> d.ty, ctor |-> d.ctor,
         pattern |-> <<[sel |-> d.fields[1], bind |-> d.fields[1]], Rest>>,
         vals |-> <<d.fields[1]>>, outer |-> <<>>]

GetExpand(name, i) ==
    LET d == Resolve(i.constructor)
    IN  [name |-> name, ctorText |-> StringifyPath(i.constructor),
         ty |-> d.ty, ctor |-> d.ctor,
         pattern |-> <<[sel |-> i.field, bind |-> i.field], Rest>>,
         vals |-> <<i.field>>, outer |-> <<>>]

(* ------------------------------ must_let! ------------------------------ *)

\* token trees: an identifier, a punctuation token, a delimited group
Ident(s) == [k |-> "ident", s |-> s]
Punct(s) == [k |-> "punct", s |-> s]
Paren(s) == [k |-> "paren", s |-> s]
Brace(s) == [k |-> "brace", s |-> s]

DotDot == Punct("..")

\* (@as_binding ..) => { _ };  (@as_binding $field:pat) => { $field };
AsBinding(tt) ==
    IF tt = DotDot THEN [ok |-> TRUE, text |-> "_"]
    ELSE IF tt.k \in {"ident", "paren"} THEN [ok |-> TRUE, text |-> tt.s]
    ELSE [ok |-> FALSE, text |-> ""]

\* Faulty variant: the helper without its `..` arm.
AsValueIdentOnly(tt) ==
    IF tt.k = "ident" THEN [ok |-> TRUE, text |-> tt.s]
    ELSE [ok |-> FALSE, text |-> ""]

\* (@as_value ..) => { () };  (@as_value $field:ident) => { $field };
AsValue(tt) ==
    IF tt = DotDot THEN [ok |-> TRUE, text |-> "()"]
    ELSE IF tt.k = "ident" THEN [ok |-> TRUE, text |-> tt.s]
    ELSE [ok |-> FALSE, text |-> ""]

\* The entries of a field list, each the token trees between two commas:
\* bare names, renames, the rest wildcard, and nested sub-patterns
\* (`Enum::Foo { foo }`, `(x, y)`, `a: (x, y)`).
BareEntries == {<<Ident(s)>> : s \in {"foo", "a", "b", "x", "y"}}

RenameEntries ==
    {<<Ident(f), Punct(":"), Ident(l)>> : f \in {"foo", "a", "b"}, l \in {"x", "y"}}

RestEntry == <<DotDot>>

NestedEntries ==
    { <<Ident("Enum"), Punct("::"), Ident("Foo"), Brace("{ foo }")>>,
      <<Paren("(x, y)")>>,
      <<Ident("a"), Punct(":"), Paren("(x, y)")>> }

\* (a `..` between parentheses is not enumerated)
ParenEntries == BareEntries \cup RenameEntries \cup NestedEntries
BraceEntries == ParenEntries \cup {RestEntry}

Lists(E) == UNION {[1..n -> E] : n \in 1..MaxEntries}

\* must_let!(path { entries } = value) and must_let!(path ( entries ) = value)
MustLetInvocations ==
    [valueTy : Types, path : Paths, delim : {"brace"}, entries : Lists(BraceEntries)]
    \cup
    [valueTy : Types, path : Paths, delim : {"paren"}, entries : Lists(ParenEntries)]

FirstToken(i) == Ident(i.path[1])

\* the four helper arms all start with the token `@`
HelperArmMatches(i) == FirstToken(i) = Punct("@")

\* ($constructor:path { $($field:ident: $binding:ident),+ } = $value:expr)
RenameArmMatches(i) ==
    /\ i.delim = "brace"
    /\ \A n \in DOMAIN i.entries :
          LET e == i.entries[n]
          IN  Len(e) = 3 /\ e[1].k = "ident" /\ e[2] = Punct(":") /\ e[3].k = "ident"

\* Faulty variant: the arm takes any token trees between the commas.
BareArmMatchesAnyTokens(i) ==
    /\ i.delim = "brace"
    /\ \A n \in DOMAIN i.entries : Len(i.entries[n]) >= 1

\* ($constructor:path { $($binding:tt),+ } = $value:expr)
BareArmMatches(i) ==
    /\ i.delim = "brace"
    /\ \A n \in DOMAIN i.entries : Len(i.entries[n]) = 1

\* ($($constructor:ident)::+ ( $($binding:tt),+ ) = $value:expr)
TupleArmMatches(i) ==
    /\ i.delim = "paren"
    /\ \A n \in DOMAIN i.entries : Len(i.entries[n]) = 1

\* the arms are tried in the order of the source
SelectArm(i) ==
    IF HelperArmMatches(i) THEN "helper"
    ELSE IF RenameArmMatches(i) THEN "rename"
    ELSE IF BareArmMatches(i) THEN "bare"
    ELSE IF TupleArmMatches(i) THEN "tuple"
    ELSE "none"

\* the binding token of each entry
Bindings(i, arm) ==
    [n \in DOMAIN i.entries |->
        IF arm = "rename" THEN i.entries[n][3] ELSE i.entries[n][1]]

\* $constructor { $($field: $binding),+ }
RenamePattern(i) ==
    [n \in DOMAIN i.entries |->
        [sel |-> i.entries[n][1].s, bind |-> i.entries[n][3].s]]

\* $constructor { $($binding),+ }
BarePattern(i) ==
    [n \in DOMAIN i.entries |->
        LET tt == i.entries[n][1]
        IN  IF tt = DotDot THEN Rest ELSE [sel |-> tt.s, bind |-> tt.s]]

\* Faulty variant: the positions are counted from the right.
TuplePatternReversed(i) ==
    [n \in DOMAIN i.entries |->
        LET tt == i.entries[n][1]
        IN  IF tt = DotDot THEN Rest
            ELSE [sel |-> ToString(Len(i.entries) - n), bind |-> tt.s]]

\* $($constructor)::+ ( $($binding),+ ): the n-th entry is the n-th position
TuplePattern(i) ==
    [n \in DOMAIN i.entries |->
        LET tt == i.entries[n][1]
        IN  IF tt = DotDot THEN Rest ELSE [sel |-> ToString(n - 1), bind |-> tt.s]]

\* let ($(must_let!(@as_binding $binding)),+) = match $value {
\*     <pattern> => ($(must_let!(@as_value $binding)),+),
\*     _ => panic!("must_let!: ..", stringify!(<constructor>), $value) };
MustLetExpand(i, arm, printer) ==
    LET d == Resolve(i.path)
        bs == Bindings(i, arm)
    IN  [name |-> "must_let!",
         ctorText |-> IF arm = "tuple" THEN StringifyTokens(i.path, printer)
                      ELSE StringifyPath(i.path),
         ty |-> d.ty, ctor |-> d.ctor,
         pattern |-> IF arm = "rename" THEN RenamePattern(i)
                     ELSE IF arm = "bare" THEN BarePattern(i)
                     ELSE TuplePattern(i),
         vals |-> [n \in DOMAIN bs |-> AsValue(bs[n]).text],
         outer |-> [n \in DOMAIN bs |-> AsBinding(bs[n]).text]]

\* every nested helper invocation finds an arm
HelpersExpand(i, arm) ==
    \A n \in DOMAIN i.entries :
        LET b == Bindings(i, arm)[n] IN AsBinding(b).ok /\ AsValue(b).ok

\* The rules of the host language for the expanded pattern: it has the type
\* of the value, names only fields of the variant, each once, covers every
\* field unless it ends with `..`, and binds no name twice.
PatternCompiles(p, arm, valueTy) ==
    LET d == CHOOSE x \in Variants : x.ty = p.ty /\ x.ctor = p.ctor
        named == SelectSeq(p.pattern, LAMBDA e : e # Rest)
        sels == [n \in DOMAIN named |-> named[n].sel]
        binds == [n \in DOMAIN named |-> named[n].bind]
        rests == {n \in DOMAIN p.pattern : p.pattern[n] = Rest}
    IN  /\ d.ty = valueTy
        /\ arm = "tuple" => d.style = "tuple"
        /\ Range(sels) \subseteq Range(d.fields)
        /\ NoDuplicates(sels)
        /\ NoDuplicates(binds)
        /\ rests \subseteq {Len(p.pattern)}
        /\ rests = {} => Range(sels) = Range(d.fields)

(* ----------------------- token segmentation ---------------------------- *)

\* Iterate over the stream: a separator closes the current group, any other
\* token (a group included) is appended to it; at the end the current group
\* is emitted when it is not empty.
RECURSIVE SplitFrom(_, _, _, _)
SplitFrom(tokens, seps, current, done) ==
    IF tokens = <<>>
    THEN IF current = <<>> THEN done ELSE Append(done, current)
    ELSE LET t == Head(tokens)
         IN  IF t.k = "punct" /\ t.s \in seps
             THEN SplitFrom(Tail(tokens), seps, <<>>, Append(done, current))
             ELSE SplitFrom(Tail(tokens), seps, Append(current, t), done)

\* Faulty variant: the separator set is ignored, the comma alone splits.
SplitOnComma(tokens, seps) == SplitFrom(tokens, {","}, <<>>, <<>>)

Split(tokens, seps) == SplitFrom(tokens, seps, <<>>, <<>>)

\* "a, B::C, d" as the tokenizer delivers it
ExampleStream ==
    <<Ident("a"), Punct(","), Ident("B"), Punct(":"), Punct(":"), Ident("C"),
      Punct(","), Ident("d")>>

SplitAlphabet ==
    {Ident("a"), Ident("B"), Punct(","), Punct("."), Punct(":"), Paren("(x, y)")}

SplitStreams ==
    UNION {[1..n -> SplitAlphabet] : n \in 0..MaxTokens} \cup {ExampleStream}

SeparatorSets == {{",", "."}, {","}, {":"}}

SplitInvocations == [tokens : SplitStreams, seps : SeparatorSets]

(* ------------------------------ actions -------------------------------- *)

NoInv == [valueTy |-> ""]

Idle ==
    /\ pc = "idle" /\ macro = "" /\ inv = NoInv /\ prog = NoProg
    /\ expr = NoExpr /\ evals = 0 /\ inspected = NoValue /\ rendered = NoValue
    /\ outcome = "" /\ result = NoPrim /\ locals = <<>> /\ message = ""
    /\ groups = <<>>

Init == Idle

Compiled(name, i, p) ==
    /\ pc' = "compiled" /\ macro' = name /\ inv' = i /\ prog' = p
    /\ UNCHANGED <<expr, evals, inspected, rendered, outcome, result, locals,
                   message, groups>>

Rejected(name, i, why) ==
    /\ pc' = "rejected" /\ macro' = name /\ inv' = i /\ outcome' = why
    /\ UNCHANGED <<prog, expr, evals, inspected, rendered, result, locals,
                   message, groups>>

\* the build of a call site of get!
InvokeGet ==
    /\ pc = "idle"
    /\ \E i \in GetInvocations :
          IF GetCompiles(i) THEN Compiled("get!", i, GetExpand("get!", i))
          ELSE Rejected("get!", i, "pattern error")

\* the build of a call site of unwrap_enum_field!
InvokeUnwrapEnumField ==
    /\ pc = "idle"
    /\ \E i \in GetInvocations :
          IF GetCompiles(i)
          THEN Compiled("unwrap_enum_field!", i, GetExpand("unwrap_enum_field!", i))
          ELSE Rejected("unwrap_enum_field!", i, "pattern error")

\* the build of a call site of must_let!
InvokeMustLet ==
    /\ pc = "idle"
    /\ \E i \in MustLetInvocations, printer \in TokenPrinters :
          LET arm == SelectArm(i)
          IN  IF arm \in {"none", "helper"}
              THEN Rejected("must_let!", i, "no rules expected")
              ELSE IF ~HelpersExpand(i, arm)
              THEN Rejected("must_let!", i, "no rules expected (helper)")
              ELSE IF ~PatternCompiles(MustLetExpand(i, arm, printer), arm, i.valueTy)
              THEN Rejected("must_let!", i, "pattern error")
              ELSE Compiled("must_let!", i, MustLetExpand(i, arm, printer))

Ran(e, r) ==
    /\ pc' = "done" /\ expr' = e
    /\ evals' = r.evals /\ inspected' = r.inspected /\ rendered' = r.rendered
    /\ outcome' = r.outcome /\ result' = r.result /\ locals' = r.locals
    /\ message' = r.message
    /\ UNCHANGED <<macro, inv, prog, groups>>

\* one execution of the expanded extractor
RunExtractor ==
    /\ pc = "compiled" /\ macro \in {"get!", "unwrap_enum_field!"}
    /\ \E e \in ExprsOf(inv.valueTy) : Ran(e, GetRun(prog, e))

\* one execution of the expanded binder
RunMustLet ==
    /\ pc = "compiled" /\ macro = "must_let!"
    /\ \E e \in ExprsOf(inv.valueTy) : Ran(e, MustLetRun(prog, e))

\* one call of the segmentation helper
InvokeSplit ==
    /\ pc = "idle"
    /\ \E i \in SplitInvocations :
          /\ pc' = "done" /\ macro' = "split" /\ inv' = i
          /\ groups' = Split(i.tokens, i.seps)
          /\ UNCHANGED <<prog, expr, evals, inspected, rendered, outcome,
                         result, locals, message>>

\* the next call site / the next test
Reset ==
    /\ pc \in {"rejected", "done"}
    /\ pc' = "idle" /\ macro' = "" /\ inv' = NoInv /\ prog' = NoProg
    /\ expr' = NoExpr /\ evals' = 0 /\ inspected' = NoValue
    /\ rendered' = NoValue /\ outcome' = "" /\ result' = NoPrim
    /\ locals' = <<>> /\ message' = "" /\ groups' = <<>>

Next ==
    \/ InvokeGet
    \/ InvokeUnwrapEnumField
    \/ InvokeMustLet
    \/ RunExtractor
    \/ RunMustLet
    \/ InvokeSplit
    \/ Reset

Spec == Init /\ [][Next]_vars

(* ------------------------------ properties ----------------------------- *)

Extractors == {"get!", "unwrap_enum_field!"}

\* the value-expression's first result was built with the named constructor
BuiltWith(path, v) == v.ty = Resolve(path).ty /\ v.ctor = Resolve(path).ctor

EnumFoo(n) == [ty |-> "Enum", ctor |-> "Foo", vals |-> <<[t |-> "i32", v |-> n]>>]
EnumBar(n) == [ty |-> "Enum", ctor |-> "Bar", vals |-> <<[t |-> "bool", v |-> n]>>]
EnumBaz(m, n) ==
    [ty |-> "Enum", ctor |-> "Baz",
     vals |-> <<[t |-> "i32", v |-> m], [t |-> "i32", v |-> n]>>]
TPair(m, n) ==
    [ty |-> "T", ctor |-> "Pair",
     vals |-> <<[t |-> "i32", v |-> m], [t |-> "i32", v |-> n]>>]

\* C1: when the value was built with constructor C, the extractor yields the
\* value of the requested field of that value, whatever the other fields hold.
C1_ExtractorYieldsField ==
    (pc = "done" /\ macro \in Extractors /\ BuiltWith(inv.constructor, expr.first))
        => /\ outcome = "value"
           /\ result = FieldVal(expr.first, inv.field)

C1_Witness ==
    /\ pc = "done" /\ macro = "get!" /\ outcome = "value"
    /\ inv.constructor = <<"Enum", "Baz">> /\ inv.field = "b"
    /\ expr.first = EnumBaz(0, 1)
    /\ result = [t |-> "i32", v |-> 1]

\* C2: when the value v (an expression without side effects) was built with
\* another constructor than C, the extractor M! yields no value and panics
\* with exactly "M!: expected enum constructor: <C>, got <Debug of v>", <C>
\* being the path without whitespace.
C2_ExtractorMismatchPanics ==
    (pc = "done" /\ macro \in Extractors /\ Pure(expr)
       /\ ~BuiltWith(inv.constructor, expr.first))
        => /\ outcome = "panic"
           /\ result = NoPrim
           /\ message = macro \o ": expected enum constructor: "
                          \o Join(inv.constructor, "::") \o ", got "
                          \o DebugValue(expr.first)
           /\ (inv.constructor = <<"Enum", "Foo">> /\ expr.first = EnumBar(1))
                => message =
                     IF macro = "get!"
                     THEN "get!: expected enum constructor: Enum::Foo, got Bar { bar: true }"
                     ELSE "unwrap_enum_field!: expected enum constructor: Enum::Foo, got Bar { bar: true }"

C2_Witness ==
    /\ pc = "done" /\ macro = "get!" /\ outcome = "panic"
    /\ inv.constructor = <<"Enum", "Foo">> /\ inv.field = "foo"
    /\ expr.first = EnumBar(1) /\ expr.later = EnumBar(1)
    /\ message = "get!: expected enum constructor: Enum::Foo, got Bar { bar: true }"

\* C3: for every arm of must_let! and every value v (an expression without
\* side effects) built with another constructor than C, must_let! binds
\* nothing and panics with exactly "must_let!: expected enum constructor:
\* <C>, got <Debug of v>", <C> being the path without whitespace, also for
\* a path of several segments.
C3_MustLetMismatchMessage ==
    (pc = "done" /\ macro = "must_let!" /\ Pure(expr)
       /\ ~BuiltWith(inv.path, expr.first))
        => /\ outcome = "panic"
           /\ locals = <<>>
           /\ message = "must_let!: expected enum constructor: "
                          \o Join(inv.path, "::") \o ", got "
                          \o DebugValue(expr.first)

\* the named entries of a field list are all bare, or all renames
AllBare(i) == \A n \in DOMAIN i.entries : i.entries[n] \in BareEntries
AllRename(i) == \A n \in DOMAIN i.entries : i.entries[n] \in RenameEntries

\* the local an entry introduces and the field it names
LocalOf(e) == IF Len(e) = 3 THEN e[3].s ELSE e[1].s
FieldOf(e) == e[1].s

\* C4: on a match, the bare form and the rename form of must_let! introduce
\* exactly one local per entry of the field list, in list order, each bound
\* to the value of the field its entry names.
C4_StructFormBindsFields ==
    (pc = "done" /\ macro = "must_let!" /\ inv.delim = "brace"
       /\ (AllBare(inv) \/ AllRename(inv))
       /\ BuiltWith(inv.path, expr.first))
        => /\ outcome = "bound"
           /\ Len(locals) = Len(inv.entries)
           /\ \A n \in DOMAIN inv.entries :
                 /\ locals[n].name = LocalOf(inv.entries[n])
                 /\ locals[n].val = FieldVal(expr.first, FieldOf(inv.entries[n]))

C4_Witness ==
    /\ pc = "done" /\ macro = "must_let!" /\ outcome = "bound"
    /\ inv.path = <<"Enum", "Baz">>
    /\ inv.entries = << <<Ident("b"), Punct(":"), Ident("x")>>,
                        <<Ident("a"), Punct(":"), Ident("y")>> >>
    /\ expr.first = EnumBaz(0, 1)
    /\ locals = << [name |-> "x", val |-> [t |-> "i32", v |-> 1]],
                   [name |-> "y", val |-> [t |-> "i32", v |-> 0]] >>

\* C5: on a match, one execution of must_let! evaluates the value-expression
\* exactly once, and every local it binds holds a field of the value of
\* that one evaluation.
C5_MatchEvaluatesOnce ==
    (pc = "done" /\ macro = "must_let!" /\ BuiltWith(inv.path, expr.first))
        => /\ outcome = "bound"
           /\ evals = 1
           /\ inspected = expr.first
           /\ \A n \in DOMAIN locals :
                 \E k \in DOMAIN prog.pattern :
                    /\ prog.pattern[k] # Rest
                    /\ prog.pattern[k].bind = locals[n].name
                    /\ locals[n].val = FieldVal(expr.first, prog.pattern[k].sel)

C5_Witness ==
    /\ pc = "done" /\ macro = "must_let!" /\ outcome = "bound" /\ evals = 1
    /\ inv.entries = << <<Ident("a")>>, <<Ident("b")>> >>
    /\ expr.first = EnumBaz(0, 1) /\ expr.later = EnumBaz(1, 0)
    /\ locals = << [name |-> "a", val |-> [t |-> "i32", v |-> 0]],
                   [name |-> "b", val |-> [t |-> "i32", v |-> 1]] >>

\* a field list of distinct bare field names of the variant, then `..`
RestForm(i) ==
    LET n == Len(i.entries)
        d == Resolve(i.path)
    IN  /\ i.delim = "brace"
        /\ n >= 2
        /\ i.entries[n] = RestEntry
        /\ \A k \in 1..(n - 1) :
              /\ i.entries[k] \in BareEntries
              /\ i.entries[k][1].s \in Range(d.fields)
        /\ NoDuplicates(SubSeq(i.entries, 1, n - 1))
        /\ i.valueTy = d.ty

\* C6: the rest-wildcard form is accepted whatever fields are left
\* unmentioned; its `..` expands to the pattern `_` and the value (); on a
\* match it binds the mentioned fields to their values and nothing else.
C6_RestWildcard ==
    (macro = "must_let!" /\ RestForm(inv))
        => /\ pc # "rejected"
           /\ prog.outer[Len(inv.entries)] = "_"
           /\ prog.vals[Len(inv.entries)] = "()"
           /\ (pc = "done" /\ BuiltWith(inv.path, expr.first))
                => /\ outcome = "bound"
                   /\ Len(locals) = Len(inv.entries) - 1
                   /\ \A k \in DOMAIN locals :
                         /\ locals[k].name = inv.entries[k][1].s
                         /\ locals[k].val = FieldVal(expr.first, inv.entries[k][1].s)

C6_Witness ==
    /\ pc = "done" /\ macro = "must_let!" /\ outcome = "bound"
    /\ inv.path = <<"Enum", "Baz">>
    /\ inv.entries = << <<Ident("b")>>, RestEntry >>
    /\ expr.first = EnumBaz(0, 1)
    /\ locals = << [name |-> "b", val |-> [t |-> "i32", v |-> 1]] >>

\* K(l1, .., ln) with distinct locals, as many as K has positions
TupleForm(i) ==
    LET d == Resolve(i.path)
    IN  /\ i.delim = "paren"
        /\ AllBare(i)
        /\ NoDuplicates(i.entries)
        /\ d.style = "tuple"
        /\ Len(i.entries) = Len(d.fields)
        /\ i.valueTy = d.ty

\* C7: the tuple form, with a constructor of one or of several path
\* segments, is accepted; on a match it binds the i-th local to the i-th
\* positional field, and it aborts when the value was built with another
\* constructor.
C7_TupleFormBindsPositions ==
    (macro = "must_let!" /\ TupleForm(inv))
        => /\ pc # "rejected"
           /\ (pc = "done" /\ BuiltWith(inv.path, expr.first))
                => /\ outcome = "bound"
                   /\ Len(locals) = Len(inv.entries)
                   /\ \A n \in DOMAIN locals :
                         /\ locals[n].name = inv.entries[n][1].s
                         /\ locals[n].val = expr.first.vals[n]
           /\ (pc = "done" /\ ~BuiltWith(inv.path, expr.first))
                => /\ outcome = "panic"
                   /\ locals = <<>>

C7_Witness ==
    /\ pc = "done" /\ macro = "must_let!" /\ outcome = "bound"
    /\ inv.path = <<"T", "Pair">> /\ inv.delim = "paren"
    /\ inv.entries = << <<Ident("y")>>, <<Ident("x")>> >>
    /\ expr.first = TPair(0, 1)
    /\ locals = << [name |-> "y", val |-> [t |-> "i32", v |-> 0]],
                   [name |-> "x", val |-> [t |-> "i32", v |-> 1]] >>

\* a field list that mixes bare and rename entries
Mixed(i) ==
    /\ i.delim = "brace"
    /\ \E n \in DOMAIN i.entries : i.entries[n] \in BareEntries
    /\ \E n \in DOMAIN i.entries : i.entries[n] \in RenameEntries

\* a field list with a nested sub-pattern in a field position
Nested(i) == \E n \in DOMAIN i.entries : i.entries[n] \in NestedEntries

\* C8: an invocation whose field list mixes bare and rename entries, or holds
\* a nested sub-pattern, is rejected during macro expansion: no arm (of the
\* helper arms either) accepts it, and nothing is expanded or bound.
C8_MixedAndNestedRejected ==
    (macro = "must_let!" /\ (Mixed(inv) \/ Nested(inv)))
        => /\ pc = "rejected"
           /\ outcome \in {"no rules expected", "no rules expected (helper)"}
           /\ prog = NoProg
           /\ locals = <<>>

C8_Witness ==
    /\ pc = "rejected" /\ macro = "must_let!"
    /\ inv.path = <<"Enum", "Baz">> /\ inv.valueTy = "Enum"
    /\ inv.entries = << <<Ident("a"), Punct(":"), Ident("x")>>, <<Ident("b")>> >>
    /\ outcome = "no rules expected"

IsSeparator(t, seps) == t.k = "punct" /\ t.s \in seps

\* the number of separators of a stream
RECURSIVE CountSeparators(_, _)
CountSeparators(tokens, seps) ==
    IF tokens = <<>> THEN 0
    ELSE (IF IsSeparator(Head(tokens), seps) THEN 1 ELSE 0)
         + CountSeparators(Tail(tokens), seps)

\* C9: the segmentation helper splits at every separator and keeps every
\* other token, in order, in its group; a non-empty trailing group is
\* emitted, an empty remainder after a final separator is dropped; and
\* "a, B::C, d" on {',', '.'} yields [a], [B::C], [d].
C9_Segmentation ==
    (pc = "done" /\ macro = "split")
        => LET n == Len(inv.tokens)
               trailing == n > 0 /\ ~IsSeparator(inv.tokens[n], inv.seps)
           IN  /\ Flatten(groups)
                    = SelectSeq(inv.tokens, LAMBDA t : ~IsSeparator(t, inv.seps))
               /\ \A g \in DOMAIN groups :
                     \A k \in DOMAIN groups[g] : ~IsSeparator(groups[g][k], inv.seps)
               /\ Len(groups) = CountSeparators(inv.tokens, inv.seps)
                                  + (IF trailing THEN 1 ELSE 0)
               /\ (inv.tokens = ExampleStream /\ inv.seps = {",", "."})
                    => groups = << <<Ident("a")>>,
                                   <<Ident("B"), Punct(":"), Punct(":"), Ident("C")>>,
                                   <<Ident("d")>> >>

C9_Witness ==
    /\ pc = "done" /\ macro = "split"
    /\ inv.tokens = ExampleStream /\ inv.seps = {",", "."}
    /\ Len(groups) = 3

\* C10: on the mismatch path of get! and of every must_let! arm the
\* value-expression is evaluated exactly once, and the value rendered after
\* "got" is the value whose tag was inspected.
C10_MismatchEvaluatesOnce ==
    (pc = "done" /\ macro \in Extractors \cup {"must_let!"} /\ outcome = "panic")
        => /\ evals = 1
           /\ rendered = inspected

====
